---------------------------- MODULE Spec2Model ----------------------------
(***************************************************************************)
(* PMMMagaibaController (bots/controllers/market_making/pmm_magaiba.py):   *)
(* the signal-to-order-ladder pipeline.                                    *)
(*                                                                         *)
(*   __init__               max_records and the DCA weights dca_amounts_pct*)
(*   update_processed_data  reference_price and spread_multiplier from the *)
(*                          NATR and MACD series of the candle window      *)
(*   get_executor_config    the ladder of prices and quote amounts         *)
(*                                                                         *)
(* Numbers.  The controller computes in decimal.Decimal (prices, amounts,  *)
(* weights) and in floating point (the pandas series).  Both are modelled  *)
(* as decimal floating-point numbers  c * 10^e  whose coefficient keeps at *)
(* most DecPrec significant digits; every operation rounds its exact       *)
(* result half-even to that precision, as the decimal context does at its  *)
(* 28 digits.  A quiet NaN propagates through every operation.             *)
(***************************************************************************)
EXTENDS Integers, Sequences, FiniteSets

\* Significant digits kept by one arithmetic operation.
DecPrec == 3

RECURSIVE Pow10(_)
Pow10(k) == IF k <= 0 THEN 1 ELSE 10 * Pow10(k - 1)

Abs(i) == IF i < 0 THEN -i ELSE i

Sign(i) == IF i < 0 THEN -1 ELSE IF i > 0 THEN 1 ELSE 0

RECURSIVE NumDigits(_)
NumDigits(i) == IF Abs(i) < 10 THEN 1 ELSE 1 + NumDigits(Abs(i) \div 10)

NaN == [nan |-> TRUE, c |-> 0, e |-> 0]

\* The number c * 10^e, trailing zeros of the coefficient moved to the
\* exponent (Decimal compares by value: 1.50 = 1.5).
RECURSIVE Dec(_, _)
Dec(c, e) ==
    IF c = 0 THEN [nan |-> FALSE, c |-> 0, e |-> 0]
    ELSE IF c % 10 = 0 THEN Dec(c \div 10, e + 1)
    ELSE [nan |-> FALSE, c |-> c, e |-> e]

\* c * 10^e rounded half-even to DecPrec significant digits; sticky says the
\* exact value lies strictly above |c| * 10^e (digits cut off before).
DecRound(c, e, sticky) ==
    LET k == NumDigits(c) - DecPrec
    IN  IF k <= 0 THEN Dec(c, e)
        ELSE LET q    == Abs(c) \div Pow10(k)
                 r    == Abs(c) % Pow10(k)
                 half == 5 * Pow10(k - 1)
                 up   == \/ r > half
                         \/ r = half /\ (sticky \/ q % 2 = 1)
             IN  Dec(Sign(c) * (IF up THEN q + 1 ELSE q), e + k)

DecInt(i) == Dec(i, 0)

DecNeg(a) == IF a.nan THEN NaN ELSE [a EXCEPT !.c = -a.c]

DecMul(a, b) ==
    IF a.nan \/ b.nan THEN NaN
    ELSE DecRound(a.c * b.c, a.e + b.e, FALSE)

DecAdd(a, b) ==
    IF a.nan \/ b.nan THEN NaN
    ELSE IF a.c = 0 THEN b
    ELSE IF b.c = 0 THEN a
    ELSE LET m == IF a.e < b.e THEN a.e ELSE b.e
         IN  DecRound(a.c * Pow10(a.e - m) + b.c * Pow10(b.e - m), m, FALSE)

DecSub(a, b) == DecAdd(a, DecNeg(b))

\* a / b for b # 0: the quotient carried to more than DecPrec digits, the
\* remainder kept as the sticky bit, then rounded.
DecDiv(a, b) ==
    IF a.nan \/ b.nan THEN NaN
    ELSE IF a.c = 0 THEN DecInt(0)
    ELSE LET k == DecPrec + 1 + NumDigits(b.c) - NumDigits(a.c)
             n == Abs(a.c) * Pow10(k)
             q == n \div Abs(b.c)
             r == n % Abs(b.c)
         IN  DecRound(Sign(a.c) * Sign(b.c) * q, a.e - b.e - k, r # 0)

\* Comparisons by value; a comparison with NaN is false.
DecSign(a) == Sign(a.c)
DecLt(a, b) == ~a.nan /\ ~b.nan /\ DecSign(DecSub(a, b)) < 0
DecGt(a, b) == DecLt(b, a)

RECURSIVE ISqrtIn(_, _, _)
ISqrtIn(n, lo, hi) ==
    IF lo >= hi THEN lo
    ELSE LET mid == (lo + hi + 1) \div 2
         IN  IF mid * mid <= n THEN ISqrtIn(n, mid, hi) ELSE ISqrtIn(n, lo, mid - 1)

\* Floor of the square root of n, 0 <= n < 2 * 10^9.
ISqrt(n) == ISqrtIn(n, 0, 44721)

\* Square root of a >= 0, correctly rounded.
DecSqrt(a) ==
    IF a.nan \/ a.c < 0 THEN NaN
    ELSE IF a.c = 0 THEN DecInt(0)
    ELSE LET room == 2 * DecPrec + 1 - NumDigits(a.c)
             j    == IF (a.e - room) % 2 = 0 THEN room ELSE room - 1
             n    == a.c * Pow10(j)
             s    == ISqrt(n)
         IN  DecRound(s, (a.e - j) \div 2, s * s # n)


(***************************************************************************)
(* Configuration (PMMMagaibaControllerConfig).  The fields are plain       *)
(* annotated fields: no validator constrains dca_levels, dca_spread_scalar *)
(* or dca_amount_ratio_increment, so every value below is constructible.   *)
(***************************************************************************)
MacdFastDefault == 12
MacdSlowDefault == 26
MacdSignalDefault == 9
NatrLengthDefault == 14
\* max_records = longest lookback + Margin
Margin == 10

\* Largest dca_levels explored.
MaxLevels == 3

SpreadScalars == {DecInt(2), DecInt(60)}
RatioIncrements == {DecInt(-1), DecInt(1), DecInt(2)}
NatrLengths == {NatrLengthDefault, 30}

Configs ==
    [dca_levels : 0..MaxLevels,
     dca_spread_scalar : SpreadScalars,
     dca_amount_ratio_increment : RatioIncrements,
     macd_fast : {MacdFastDefault},
     macd_slow : {MacdSlowDefault},
     macd_signal : {MacdSignalDefault},
     natr_length : NatrLengths]

Max2(a, b) == IF a >= b THEN a ELSE b

\* line 125
MaxRecords(cfg) ==
    Max2(Max2(cfg.macd_slow, cfg.macd_fast), Max2(cfg.macd_signal, cfg.natr_length))
        + Margin

RECURSIVE DecPow(_, _)
DecPow(a, i) == IF i = 0 THEN DecInt(1) ELSE DecMul(DecPow(a, i - 1), a)

\* Distributions.geometric(n_levels, start, ratio): start * ratio^i, i < n_levels
Geometric(n_levels, start, ratio) ==
    [i \in 1..n_levels |-> DecMul(start, DecPow(ratio, i - 1))]

\* sum(seq), left to right
RECURSIVE DecSum(_, _)
DecSum(seq, n) == IF n = 0 THEN DecInt(0) ELSE DecAdd(DecSum(seq, n - 1), seq[n])

AmountsDistributed(cfg) ==
    Geometric(cfg.dca_levels, DecInt(1), cfg.dca_amount_ratio_increment)

\* amount / sum(...) divides by zero: the comprehension raises on its first
\* element (with no level there is no division).
InitRaises(cfg) ==
    LET amounts == AmountsDistributed(cfg)
    IN  cfg.dca_levels >= 1 /\ DecSum(amounts, Len(amounts)).c = 0

\* A slip on line 128: the amounts kept as distributed, not divided by their sum.
DcaAmountsPctUnnormalised(cfg) == AmountsDistributed(cfg)

\* line 128: [amount / sum(amounts_distributed) for amount in amounts_distributed]
DcaAmountsPct(cfg) ==
    LET amounts == AmountsDistributed(cfg)
        total   == DecSum(amounts, Len(amounts))
    IN  [i \in 1..Len(amounts) |-> DecDiv(amounts[i], total)]

(***************************************************************************)
(* update_processed_data: the inputs of one cycle.  The candle count, the  *)
(* indicator library's NATR (in percent) and MACD outputs and the mid      *)
(* price come from the market data provider and pandas_ta.                 *)
(***************************************************************************)
NatrPercents == {DecInt(-1), DecInt(0), DecInt(1)}
MacdSeries ==
    {<<DecInt(0), DecInt(0), DecInt(0), DecInt(0)>>,
     <<DecInt(-1), DecInt(1), DecInt(-1), DecInt(1)>>,
     <<DecInt(0), DecInt(0), DecInt(0), DecInt(4)>>}
MacdhLast == {DecInt(-1), DecInt(1)}
MidPrices == {DecInt(100)}

CandleCounts(cfg) ==
    {cfg.natr_length - 1, cfg.macd_slow - 1, MaxRecords(cfg) - 1, MaxRecords(cfg)}

\* ta.natr and ta.macd return None for a series shorter than their length;
\* None / 100 and None[...] then raise TypeError.
IndicatorsAvailable(cfg, rows) ==
    /\ rows >= cfg.natr_length
    /\ rows >= Max2(Max2(cfg.macd_fast, cfg.macd_slow), cfg.macd_signal)

NoSeries == <<>>
NoCandles == [rows |-> 0, natr |-> NaN, macd |-> NoSeries, macdh |-> NaN, mid_price |-> NaN]

\* Series.mean()
Mean(series) == DecDiv(DecSum(series, Len(series)), DecInt(Len(series)))

RECURSIVE SumSqDev(_, _, _)
SumSqDev(series, m, n) ==
    IF n = 0 THEN DecInt(0)
    ELSE LET d == DecSub(series[n], m)
         IN  DecAdd(SumSqDev(series, m, n - 1), DecMul(d, d))

\* Series.std(): sample standard deviation (ddof = 1)
Std(series) ==
    DecSqrt(DecDiv(SumSqDev(series, Mean(series), Len(series)),
                   DecInt(Len(series) - 1)))

\* Floating-point division: x / 0 does not raise.  The divisor is a standard
\* deviation, and it is 0 only when every deviation is 0, so the only such
\* quotient is 0 / 0 = NaN.
FloatDiv(a, b) == IF a.nan \/ b.nan \/ b.c = 0 THEN NaN ELSE DecDiv(a, b)

\* line 146, last element: -(macd - macd.mean()) / macd.std()
MacdSignalLast(series) ==
    FloatDiv(DecNeg(DecSub(series[Len(series)], Mean(series))), Std(series))

\* line 148: 1 if x > 0 else -1
MacdhSignal(x) == IF DecGt(x, DecInt(0)) THEN DecInt(1) ELSE DecInt(-1)

Half == Dec(5, -1)

\* lines 149-150
PriceMultiplier(natr, series, macdh) ==
    LET max_price_shift == DecDiv(natr, DecInt(2))
    IN  DecMul(DecAdd(DecMul(Half, MacdSignalLast(series)),
                      DecMul(Half, MacdhSignal(macdh))),
               max_price_shift)

\* lines 151-155; Decimal(x) of a float keeps its value exactly
ProcessedData(natr, series, macdh, mid_price) ==
    [stored |-> TRUE,
     reference_price |->
         DecMul(mid_price, DecAdd(DecInt(1), PriceMultiplier(natr, series, macdh))),
     spread_multiplier |-> natr]

EmptyData == [stored |-> FALSE, reference_price |-> NaN, spread_multiplier |-> NaN]

(***************************************************************************)
(* get_executor_config                                                     *)
(***************************************************************************)
LevelIds == {"buy_0", "sell_0"}
TargetPrices == {DecInt(100), DecInt(-100)}
TargetAmounts == {DecInt(10), DecInt(-10)}

\* line 158
get_trade_type_from_level_id(level_id) ==
    IF level_id = "buy_0" THEN "BUY" ELSE "SELL"

\* A slip on lines 161-164: the two branches exchanged.
LadderPricesSwapped(trade_type, price, cfg, spread_multiplier) ==
    [i \in 1..cfg.dca_levels |->
        LET step == DecMul(DecMul(DecInt(i - 1), cfg.dca_spread_scalar), spread_multiplier)
        IN  IF trade_type = "BUY"
            THEN DecMul(price, DecAdd(DecInt(1), step))
            ELSE DecMul(price, DecSub(DecInt(1), step))]

\* lines 161-164, n = i - 1
LadderPrices(trade_type, price, cfg, spread_multiplier) ==
    [i \in 1..cfg.dca_levels |->
        LET step == DecMul(DecMul(DecInt(i - 1), cfg.dca_spread_scalar), spread_multiplier)
        IN  IF trade_type = "BUY"
            THEN DecMul(price, DecSub(DecInt(1), step))
            ELSE DecMul(price, DecAdd(DecInt(1), step))]

Min2(a, b) == IF a <= b THEN a ELSE b

\* A slip on line 165: the amount left in base units, not multiplied by the price.
AmountsBase(amount, pcts, prices) ==
    [i \in 1..Min2(Len(pcts), Len(prices)) |-> DecMul(amount, pcts[i])]

\* line 165: [amount * pct * price for pct, price in zip(dca_amounts_pct, prices)]
AmountsQuote(amount, pcts, prices) ==
    [i \in 1..Min2(Len(pcts), Len(prices)) |->
        DecMul(DecMul(amount, pcts[i]), prices[i])]

NoCall == [op |-> "__init__", level_id |-> "", price |-> NaN, amount |-> NaN]
NoResult(outcome) == [outcome |-> outcome, prices |-> <<>>, amounts_quote |-> <<>>]

VARIABLES config, max_records, dca_amounts_pct, processed_data, candles, call, result

vars == <<config, max_records, dca_amounts_pct, processed_data, candles, call, result>>

\* The controller after __init__ (lines 123-136); a constructor that raised
\* leaves no controller to call.
Init ==
    /\ config \in Configs
    /\ max_records = MaxRecords(config)
    /\ dca_amounts_pct = IF InitRaises(config) THEN <<>> ELSE DcaAmountsPct(config)
    /\ processed_data = EmptyData
    /\ candles = NoCandles
    /\ call = NoCall
    /\ result = NoResult(IF InitRaises(config) THEN "DivisionByZero" ELSE "ok")

Constructed == ~(call.op = "__init__" /\ result.outcome # "ok")

\* One evaluation of lines 143-155 per input of the cycle.
SignalOutputs ==
    [natr_pct \in NatrPercents, series \in MacdSeries, macdh \in MacdhLast,
     mid_price \in MidPrices |->
        ProcessedData(DecDiv(natr_pct, DecInt(100)), series, macdh, mid_price)]

\* lines 138-155; with no indicator series the other inputs are never read
update_processed_data(rows, natr_pct, series, macdh, mid_price) ==
    /\ Constructed
    /\ call' = [NoCall EXCEPT !.op = "update_processed_data"]
    /\ IF IndicatorsAvailable(config, rows)
       THEN /\ candles' = [rows |-> rows, natr |-> DecDiv(natr_pct, DecInt(100)),
                           macd |-> series, macdh |-> macdh, mid_price |-> mid_price]
            /\ processed_data' = SignalOutputs[natr_pct, series, macdh, mid_price]
            /\ result' = NoResult("ok")
       ELSE /\ candles' = [NoCandles EXCEPT !.rows = rows]
            /\ processed_data' = processed_data
            /\ result' = NoResult("TypeError")
    /\ UNCHANGED <<config, max_records, dca_amounts_pct>>

\* A slip on line 159: the multiplier popped from processed_data, not read.
get_executor_config_consuming(level_id, price, amount) ==
    /\ Constructed
    /\ processed_data.stored
    /\ call' = [op |-> "get_executor_config", level_id |-> level_id,
                price |-> price, amount |-> amount]
    /\ LET prices == LadderPrices(get_trade_type_from_level_id(level_id), price, config,
                                  processed_data.spread_multiplier)
       IN  result' = [outcome |-> "ok", prices |-> prices,
                      amounts_quote |-> AmountsQuote(amount, dca_amounts_pct, prices)]
    /\ processed_data' = EmptyData
    /\ UNCHANGED <<config, max_records, dca_amounts_pct, candles>>

\* lines 157-179; the fields of DCAExecutorConfig other than prices and
\* amounts_quote are copied from the arguments and the configuration
get_executor_config(level_id, price, amount) ==
    /\ Constructed
    /\ call' = [op |-> "get_executor_config", level_id |-> level_id,
                price |-> price, amount |-> amount]
    /\ IF processed_data.stored
       THEN LET prices == LadderPrices(get_trade_type_from_level_id(level_id), price,
                                       config, processed_data.spread_multiplier)
            IN  result' = [outcome |-> "ok", prices |-> prices,
                           amounts_quote |-> AmountsQuote(amount, dca_amounts_pct, prices)]
       ELSE result' = NoResult("KeyError")
    /\ UNCHANGED <<config, max_records, dca_amounts_pct, processed_data, candles>>

UpdateStep ==
    \E rows \in CandleCounts(config) :
        IF IndicatorsAvailable(config, rows)
        THEN \E natr_pct \in NatrPercents, series \in MacdSeries,
                macdh \in MacdhLast, mid_price \in MidPrices :
                 update_processed_data(rows, natr_pct, series, macdh, mid_price)
        ELSE update_processed_data(rows, NaN, NoSeries, NaN, NaN)

GetStep ==
    \E level_id \in LevelIds, price \in TargetPrices, amount \in TargetAmounts :
        get_executor_config(level_id, price, amount)

Next == UpdateStep \/ GetStep

Spec == Init /\ [][Next]_vars


(***************************************************************************)
(* Properties                                                              *)
(***************************************************************************)
Zero == DecInt(0)
DecLe(a, b) == ~a.nan /\ ~b.nan /\ DecSign(DecSub(a, b)) <= 0
One == DecInt(1)
IsGet == call.op = "get_executor_config" /\ result.outcome = "ok"
IsUpdate == call.op = "update_processed_data"
TradeType == get_trade_type_from_level_id(call.level_id)
Levels == config.dca_levels
LevelIndex == 0..(Levels - 1)

\* C1: a ladder returned after a spread_multiplier was stored holds dca_levels
\* prices and quote amounts in level order; prices[n] is
\* price * (1 - n * dca_spread_scalar * spread_multiplier) for a BUY and
\* price * (1 + ...) for a SELL, amounts_quote[n] is amount * weights[n] *
\* prices[n]; price 100, scalar 2, multiplier 0.01, BUY gives 100, 98, 96.
C1_LadderFormula ==
    IsGet =>
        /\ Len(result.prices) = Levels
        /\ Len(result.amounts_quote) = Levels
        /\ \A n \in LevelIndex :
            LET step == DecMul(DecMul(DecInt(n), config.dca_spread_scalar),
                               processed_data.spread_multiplier)
            IN  /\ TradeType = "BUY" =>
                       result.prices[n + 1] = DecMul(call.price, DecSub(One, step))
                /\ TradeType = "SELL" =>
                       result.prices[n + 1] = DecMul(call.price, DecAdd(One, step))
                /\ result.amounts_quote[n + 1] =
                       DecMul(DecMul(call.amount, dca_amounts_pct[n + 1]),
                              result.prices[n + 1])
        /\ ( /\ TradeType = "BUY"
             /\ call.price = DecInt(100)
             /\ config.dca_spread_scalar = DecInt(2)
             /\ processed_data.spread_multiplier = Dec(1, -2)
             /\ Levels = 3 )
           => result.prices = <<DecInt(100), DecInt(98), DecInt(96)>>

C1_Witness ==
    /\ IsGet
    /\ TradeType = "BUY"
    /\ call.price = DecInt(100)
    /\ call.amount = DecInt(10)
    /\ config.dca_spread_scalar = DecInt(2)
    /\ processed_data.spread_multiplier = Dec(1, -2)
    /\ result.prices = <<DecInt(100), DecInt(98), DecInt(96)>>
    /\ Len(result.amounts_quote) = 3

ValidLadderInputs ==
    /\ DecGt(call.price, Zero)
    /\ DecLe(Zero, call.amount)
    /\ DecLe(Zero, config.dca_spread_scalar)
    /\ DecGt(config.dca_amount_ratio_increment, Zero)

\* C2: every level of a ladder has price > 0 and amount_quote >= 0, given a
\* positive target price, a non-negative target amount, a scalar >= 0, a
\* ratio > 0 and a stored spread_multiplier >= 0.
C2_PositiveLevels ==
    (IsGet /\ ValidLadderInputs /\ DecLe(Zero, processed_data.spread_multiplier)) =>
        \A n \in LevelIndex :
            /\ DecGt(result.prices[n + 1], Zero)
            /\ DecLe(Zero, result.amounts_quote[n + 1])

\* C3: with dca_spread_scalar * spread_multiplier > 0 and a positive target
\* price, the prices are non-increasing in level index for a BUY and
\* non-decreasing for a SELL, and level 0 is at the target price.
C3_MonotoneLadder ==
    ( /\ IsGet
      /\ DecGt(call.price, Zero)
      /\ DecGt(DecMul(config.dca_spread_scalar, processed_data.spread_multiplier), Zero) )
    => /\ Levels >= 1 => result.prices[1] = call.price
       /\ \A n \in LevelIndex : n + 1 \in LevelIndex =>
            /\ TradeType = "BUY" => DecLe(result.prices[n + 2], result.prices[n + 1])
            /\ TradeType = "SELL" => DecLe(result.prices[n + 1], result.prices[n + 2])

C3_Witness ==
    /\ IsGet
    /\ TradeType = "SELL"
    /\ DecGt(call.price, Zero)
    /\ DecGt(DecMul(config.dca_spread_scalar, processed_data.spread_multiplier), Zero)
    /\ Levels = 3
    /\ DecLt(result.prices[1], result.prices[2])
    /\ DecLt(result.prices[2], result.prices[3])

\* Exact integer values at scale 10^WScale, for the weights and their products
\* with the ratio.
WScale == DecPrec + 3
Exact(a) == a.c * Pow10(a.e + WScale)
ExactProd(a, b) == a.c * b.c * Pow10(a.e + b.e + WScale)
ExactOne == Pow10(WScale)
RECURSIVE ExactSum(_, _)
ExactSum(seq, n) == IF n = 0 THEN 0 ELSE ExactSum(seq, n - 1) + Exact(seq[n])

\* The error a chain of levels + 2 rounded operations (the powers, the sum,
\* the quotient) can leave: each rounds by at most 5 * 10^-DecPrec, relative.
RoundingTol == (Levels + 2) * 5 * Pow10(WScale - DecPrec)

ValidWeightConfig ==
    Levels >= 1 /\ DecGt(config.dca_amount_ratio_increment, Zero)

C5_InvalidLadderConfigRaised ==
    /\ (Levels < 1 \/ DecLe(config.dca_amount_ratio_increment, Zero)) =>
           (call.op = "__init__" /\ result.outcome = "InvalidLadderConfig")
    /\ ( /\ call.op = "get_executor_config"
         /\ (DecLt(call.price, Zero) \/ DecLt(call.amount, Zero)) )
       => (result.outcome = "InvalidLadderConfig" /\ result.prices = <<>>)

\* C6: update_processed_data fails with InsufficientHistory exactly when the
\* candle series has fewer than max_records rows (here for a controller with
\* a well-formed ladder configuration).
C6_InsufficientHistoryRaised ==
    (IsUpdate /\ ValidWeightConfig) =>
        (result.outcome = "InsufficientHistory" <=> candles.rows < max_records)

\* C7: with a zero standard deviation of the MACD line (and a NATR >= 0) the
\* stored reference_price is a defined number.
C7_ZeroVarianceNoNaN ==
    ( /\ IsUpdate
      /\ result.outcome = "ok"
      /\ ValidWeightConfig
      /\ DecLe(Zero, candles.natr)
      /\ Std(candles.macd) = Zero )
    => ~processed_data.reference_price.nan

\* C8: the stored spread_multiplier is >= 0, and a cycle whose last NATR
\* value is negative ends with InvalidIndicatorOutput.
C8_SpreadMultiplierNonNegative ==
    ValidWeightConfig =>
        /\ processed_data.stored => DecLe(Zero, processed_data.spread_multiplier)
        /\ (IsUpdate /\ DecLt(candles.natr, Zero)) =>
               result.outcome = "InvalidIndicatorOutput"

\* C9: a get_executor_config step leaves processed_data, the configuration,
\* max_records and the weights unchanged; the weights never change after
\* construction; a call repeating the arguments of the call before it returns
\* the same prices and amounts.
C9_GetExecutorConfigPure ==
    [][ /\ dca_amounts_pct' = dca_amounts_pct
        /\ config' = config
        /\ call'.op = "get_executor_config" =>
              /\ processed_data' = processed_data
              /\ max_records' = max_records
              /\ candles' = candles
              /\ (call' = call => result' = result) ]_vars

C9_Witness ==
    /\ IsGet
    /\ Levels = 3
    /\ candles.rows = max_records
    /\ processed_data =
           ProcessedData(candles.natr, candles.macd, candles.macdh, candles.mid_price)
    /\ dca_amounts_pct = DcaAmountsPct(config)
    /\ Len(result.prices) = 3

\* C10: the stored reference_price lies within mid_price * (1 - natr / 2) and
\* mid_price * (1 + natr / 2), for a defined momentum z-score and a NATR >= 0.
C10_ShiftWithinEnvelope ==
    ( /\ IsUpdate
      /\ result.outcome = "ok"
      /\ ValidWeightConfig
      /\ DecLe(Zero, candles.natr)
      /\ DecGt(Std(candles.macd), Zero) )
    => LET max_price_shift == DecDiv(candles.natr, DecInt(2))
       IN  /\ DecLe(DecMul(candles.mid_price, DecSub(One, max_price_shift)),
                    processed_data.reference_price)
           /\ DecLe(processed_data.reference_price,
                    DecMul(candles.mid_price, DecAdd(One, max_price_shift)))

==========================================================================
